---- MODULE Spec2Model ----
(***************************************************************************)
(* A model of the barrel-distortion text toy: src/app.js (the plain lens   *)
(* version) and src/unnamed/part_000 (the CRT version with scanlines,      *)
(* noise and an animation loop).                                           *)
(*                                                                         *)
(* Numbers.  GLSL floats and JavaScript numbers are modelled by exact      *)
(* rationals <<n, d>> (d > 0, lowest terms): the arithmetic of the shader  *)
(* is the arithmetic of the reals, without rounding.                       *)
(***************************************************************************)
EXTENDS Integers, Sequences, FiniteSets

VARIABLES
    sh,             \* the fragment shader's run: its inputs and, once shaded,
                    \* its outputs
    wr,             \* renderText's line breaking: text, font size, lines
    variant,        \* "app" (src/app.js) or "crt" (src/unnamed/part_000)
    ctl,            \* the values of the page's input elements
    body,           \* document.body.style.backgroundColor
    texture,        \* the image last uploaded by texImage2D
    frame,          \* the drawing buffer of the WebGL canvas
    pendingUpload,  \* a texture upload that no drawArrays has sampled yet
    png,            \* the image handed to the download by exportToPNG
    last,           \* the event handled last
    su              \* the script's setup: where it is, the shaders, the log

uiVars == <<variant, ctl, body, texture, frame, pendingUpload, png, last>>
vars == <<sh, wr, uiVars, su>>

\* The parts of the state a specification does not look at.
ShIdle == [phase |-> "idle"]
WrIdle == [phase |-> "idle"]
SuIdle == [pc |-> "idle"]
UiIdle ==
    /\ variant = "none"
    /\ ctl = <<>>
    /\ body = <<>>
    /\ texture = <<>>
    /\ frame = <<>>
    /\ pendingUpload = FALSE
    /\ png = <<>>
    /\ last = "none"

----------------------------------------------------------------------------
(* Exact rational arithmetic, with the three values floating point adds    *)
(* to the numbers: <<1, 0>> and <<-1, 0>> are the infinities and <<0, 0>>   *)
(* is NaN (the sign of a zero is not kept: the one division of the program *)
(* divides by a zero only the zero it has itself multiplied).              *)

RECURSIVE Gcd(_, _)
Gcd(a, b) == IF b = 0 THEN a ELSE Gcd(b, a % b)

Abs(a) == IF a < 0 THEN -a ELSE a

Sign(a) == IF a < 0 THEN -1 ELSE IF a > 0 THEN 1 ELSE 0

\* n/d in lowest terms with a positive denominator; n/0 is an infinity of
\* the sign of n, and 0/0 is NaN.
Rat(n, d) ==
    IF d = 0 THEN <<Sign(n), 0>>
    ELSE LET g == Gcd(Abs(n), Abs(d))
             s == IF d < 0 THEN -1 ELSE 1
         IN  <<(s * n) \div g, (s * d) \div g>>

NaN == <<0, 0>>
IsNaN(a) == a = NaN
IsFinite(a) == a[2] # 0

Zero == Rat(0, 1)
One == Rat(1, 1)
Half == Rat(1, 2)

\* a + b; NaN with a NaN operand and for the sum of opposite infinities.
RAdd(a, b) ==
    IF IsNaN(a) \/ IsNaN(b) THEN NaN
    ELSE IF ~IsFinite(a) THEN (IF IsFinite(b) \/ a = b THEN a ELSE NaN)
    ELSE IF ~IsFinite(b) THEN b
    ELSE LET g == Gcd(a[2], b[2])
         IN  Rat(a[1] * (b[2] \div g) + b[1] * (a[2] \div g),
                 (a[2] \div g) * b[2])

RNeg(a) == <<-a[1], a[2]>>

RSub(a, b) == RAdd(a, RNeg(b))

\* a * b, cross-reduced before multiplying, so that no intermediate product
\* is larger than the result; NaN with a NaN operand and for 0 * infinity.
RMul(a, b) ==
    IF ~IsFinite(a) \/ ~IsFinite(b) THEN <<Sign(a[1]) * Sign(b[1]), 0>>
    ELSE LET g1 == Gcd(Abs(a[1]), b[2])
             g2 == Gcd(Abs(b[1]), a[2])
         IN  Rat((a[1] \div g1) * (b[1] \div g2),
                 (a[2] \div g2) * (b[2] \div g1))

\* a / b: a times the reciprocal of b, which is an infinity for b = 0, so
\* that 0 / 0 is NaN.
RDiv(a, b) == RMul(a, Rat(b[2], b[1]))

\* a < b for finite a and b, decided on the continued fractions of a and b:
\* no cross product.
RECURSIVE FiniteLt(_, _)
FiniteLt(a, b) ==
    LET qa == a[1] \div a[2]
        qb == b[1] \div b[2]
        ra == a[1] % a[2]
        rb == b[1] % b[2]
    IN  IF qa # qb THEN qa < qb
        ELSE IF rb = 0 THEN FALSE
        ELSE IF ra = 0 THEN TRUE
        ELSE FiniteLt(<<b[2], rb>>, <<a[2], ra>>)

\* a < b: false when either is NaN.
RLt(a, b) ==
    IF IsNaN(a) \/ IsNaN(b) THEN FALSE
    ELSE IF ~IsFinite(a) THEN a[1] < 0 /\ b # a
    ELSE IF ~IsFinite(b) THEN b[1] > 0
    ELSE FiniteLt(a, b)

\* a <= b: false when either is NaN.
RLe(a, b) == ~IsNaN(a) /\ ~IsNaN(b) /\ ~RLt(b, a)

----------------------------------------------------------------------------
(* The fragment shader.                                                    *)

\* vec2 center = vec2(0.5, 0.5)
center == <<Half, Half>>

V2Sub(u, v) == <<RSub(u[1], v[1]), RSub(u[2], v[2])>>
V2Add(u, v) == <<RAdd(u[1], v[1]), RAdd(u[2], v[2])>>
V2Scale(u, k) == <<RMul(u[1], k), RMul(u[2], k)>>
V2Div(u, k) == <<RDiv(u[1], k), RDiv(u[2], k)>>

\* dot(u, u): the square of length(u).
Dot2(u) == RAdd(RMul(u[1], u[1]), RMul(u[2], u[2]))

\* A sign slip in the factor: 1.0 - uDistortion * dist * dist.
FactorMinus(coord, uDistortion) == RSub(One, RMul(uDistortion, Dot2(coord)))

\* float factor = 1.0 + uDistortion * dist * dist, with dist = length(coord):
\* dist * dist is dot(coord, coord) in real arithmetic.
Factor(coord, uDistortion) == RAdd(One, RMul(uDistortion, Dot2(coord)))

\* The center added before the division: (distortedCoord + center) / uZoom.
BarrelDistortCenterFirst(vTexCoord, uDistortion, uZoom) ==
    LET coord == V2Scale(V2Sub(vTexCoord, center), uZoom)
        distortedCoord == V2Scale(coord, Factor(coord, uDistortion))
    IN  V2Div(V2Add(distortedCoord, center), uZoom)

\* The factor taken linear in the distance along each axis: no square.
BarrelDistortNoSquare(vTexCoord, uDistortion, uZoom) ==
    LET coord == V2Scale(V2Sub(vTexCoord, center), uZoom)
        distortedCoord == V2Scale(coord, RAdd(One, uDistortion))
    IN  V2Add(V2Div(distortedCoord, uZoom), center)

\* Step 1 of main(): the distorted texture coordinate of vTexCoord.  With
\* uZoom = 0 coord is (0, 0) and the division is 0 / 0: NaN in both
\* components.
BarrelDistort(vTexCoord, uDistortion, uZoom) ==
    LET coord == V2Scale(V2Sub(vTexCoord, center), uZoom)
        distortedCoord == V2Scale(coord, Factor(coord, uDistortion))
    IN  V2Add(V2Div(distortedCoord, uZoom), center)


\* The bounds test with the y comparisons forgotten.
IsOutOfBoundsXOnly(distortedCoord) ==
    \/ RLt(distortedCoord[1], Zero)
    \/ RLt(One, distortedCoord[1])

\* The test that skips the CRT effects: false of a NaN coordinate, whose
\* four comparisons are all false.  (texture2D returns a colour at any
\* coordinate, the edge texel outside [0, 1]: the sampled colour is an input
\* of the shader run.)
IsOutOfBounds(distortedCoord) ==
    \/ RLt(distortedCoord[1], Zero)
    \/ RLt(One, distortedCoord[1])
    \/ RLt(distortedCoord[2], Zero)
    \/ RLt(One, distortedCoord[2])

(* sin, in fixed point.  The angle is cut to units of 1e-5 rad, reduced    *)
(* modulo 2 pi = 6.2831853, folded into [0, pi/2] and evaluated by the     *)
(* Taylor polynomial up to x^9 in units of 1e-4.  The result is within     *)
(* SinTol of the real sine for angles up to a few thousand radians.        *)
AngleUnit == 100000
TwoPi == 628319
TwoPiWhole == 628318
TwoPiCents == 53
Pi == 314159
HalfPi == 157080
SinUnit == 10000

\* floor(x * AngleUnit) of a rational x.
ToAngle(x) == (x[1] \div x[2]) * AngleUnit + ((x[1] % x[2]) * AngleUnit) \div x[2]

\* The angle t (1e-5 rad) reduced into [0, 2 pi).
ReduceAngle(t) ==
    LET k == t \div TwoPi
        u == t - k * TwoPiWhole - (k * TwoPiCents) \div 100
    IN  IF u >= TwoPi THEN u - TwoPi ELSE u

\* sin of v (1e-5 rad) in [0, pi/2], in units of 1e-4.
SinPoly(v) ==
    LET w == v \div 10
        w2 == (w * w) \div SinUnit
        t4 == SinUnit - w2 \div 72
        t3 == SinUnit - (w2 * t4) \div (42 * SinUnit)
        t2 == SinUnit - (w2 * t3) \div (20 * SinUnit)
        t1 == SinUnit - (w2 * t2) \div (6 * SinUnit)
    IN  (w * t1) \div SinUnit

\* sin(x); NaN for a NaN or an infinity.
Sin(x) ==
    IF ~IsFinite(x) THEN NaN
    ELSE LET u == ReduceAngle(ToAngle(x))
             s == IF u < HalfPi THEN SinPoly(u)
                  ELSE IF u < Pi THEN SinPoly(Pi - u)
                  ELSE IF u < Pi + HalfPi THEN -SinPoly(u - Pi)
                  ELSE -SinPoly(TwoPi - u)
         IN  Rat(s, SinUnit)

\* The approximation error of Sin.
SinTol == Rat(1, 1000)

\* float scanline = sin(distortedCoord.y * uScanlineFrequency) * uScanlineIntensity
Scanline(distortedCoord, uScanlineFrequency, uScanlineIntensity) ==
    RMul(Sin(RMul(distortedCoord[2], uScanlineFrequency)), uScanlineIntensity)

\* float noise = (random(vTexCoord + uTime) - 0.5) * uNoiseAmount, where rnd
\* is the value of random(vTexCoord + uTime).
Noise(rnd, uNoiseAmount) == RMul(RSub(rnd, Half), uNoiseAmount)

\* color.rgb += k on a vec4 <<r, g, b, a>>.
AddRgb(color, k) ==
    <<RAdd(color[1], k), RAdd(color[2], k), RAdd(color[3], k), color[4]>>

\* The colour after step 3a (color.rgb -= scanline), or the sampled colour
\* when the coordinate is out of bounds and no effect runs.
ScanlineStep(color, distortedCoord, uScanlineFrequency, uScanlineIntensity) ==
    IF IsOutOfBounds(distortedCoord)
    THEN color
    ELSE AddRgb(color, RNeg(Scanline(distortedCoord, uScanlineFrequency,
                                     uScanlineIntensity)))

\* gl_FragColor of the CRT shader, given the sampled colour.
CrtFragColor(color, distortedCoord, frequency, intensity, rnd, amount) ==
    IF IsOutOfBounds(distortedCoord)
    THEN color
    ELSE AddRgb(ScanlineStep(color, distortedCoord, frequency, intensity),
                Noise(rnd, amount))

----------------------------------------------------------------------------
(* One run of the fragment shader on one fragment.                         *)

\* textCanvas.width / height, and the WebGL canvas that copies them.
CanvasSize == 512

\* gl.uniform1f(scanlineFrequency, canvas.height * 1.5)
ScanlineFrequency == Rat(CanvasSize * 3, 2)

\* Texture coordinates of the fragments: a grid over the quad.
GridHalf == 2
Grid == {Rat(i, 2 * GridHalf) : i \in 0..(2 * GridHalf)}
TexCoords == Grid \X Grid

\* Uniform values: the sliders' ranges are set by the page, not by the scripts.
Distortions == {Rat(-1, 2), Zero, Half, Rat(2, 1)}
ShaderZooms == {Zero, Rat(-1, 1), One, Rat(3, 2)}
Intensities == {Zero, Rat(3, 20), Rat(-1, 10)}
NoiseAmounts == {Zero, Rat(1, 20)}
\* Values of random(): fract(...) lies in [0, 1).
RandomValues == {Zero, Rat(3, 4)}
\* Colours texture2D may return.
Samples == {<<Zero, Zero, Zero, One>>, <<Half, Zero, One, One>>}

ShaderInit ==
    /\ wr = WrIdle
    /\ su = SuIdle
    /\ UiIdle
    /\ \E v \in {"app", "crt"}, uv \in TexCoords, d \in Distortions,
       z \in ShaderZooms, c \in Samples :
        \E i \in IF v = "crt" THEN Intensities ELSE {Zero},
           n \in IF v = "crt" THEN NoiseAmounts ELSE {Zero},
           r \in IF v = "crt" THEN RandomValues ELSE {Zero} :
            sh = [phase |-> "input", variant |-> v, vTexCoord |-> uv,
                  uDistortion |-> d, uZoom |-> z, sample |-> c,
                  uScanlineIntensity |-> i, uNoiseAmount |-> n, rnd |-> r,
                  distortedCoord |-> center, scanned |-> c, fragColor |-> c]

\* main() of src/app.js: gl_FragColor = texture2D(uSampler, distortedCoord).
ShadeApp ==
    /\ sh.phase = "input"
    /\ sh.variant = "app"
    /\ LET dc == BarrelDistort(sh.vTexCoord, sh.uDistortion, sh.uZoom) IN
        sh' = [sh EXCEPT !.phase = "shaded", !.distortedCoord = dc,
                         !.scanned = sh.sample, !.fragColor = sh.sample]
    /\ UNCHANGED <<wr, uiVars, su>>

\* main() of the CRT version.
ShadeCrt ==
    /\ sh.phase = "input"
    /\ sh.variant = "crt"
    /\ LET dc == BarrelDistort(sh.vTexCoord, sh.uDistortion, sh.uZoom) IN
        sh' = [sh EXCEPT
                 !.phase = "shaded",
                 !.distortedCoord = dc,
                 !.scanned = ScanlineStep(sh.sample, dc, ScanlineFrequency,
                                          sh.uScanlineIntensity),
                 !.fragColor = CrtFragColor(sh.sample, dc, ScanlineFrequency,
                                            sh.uScanlineIntensity, sh.rnd,
                                            sh.uNoiseAmount)]
    /\ UNCHANGED <<wr, uiVars, su>>

ShaderNext == ShadeApp \/ ShadeCrt

ShaderSpec == ShaderInit /\ [][ShaderNext]_vars


----------------------------------------------------------------------------
(* Text: a string is a sequence of one-character strings.                  *)

\* The letters of the model, in both cases.
LowerChars == <<"a", "b", "e", "l", "o", "s", "t", "u", "w", "y">>
UpperChars == <<"A", "B", "E", "L", "O", "S", "T", "U", "W", "Y">>

IndexIn(chars, c) == CHOOSE i \in 1..Len(chars) : chars[i] = c
IsIn(chars, c) == \E i \in 1..Len(chars) : chars[i] = c

\* String.prototype.toUpperCase / toLowerCase.
ToUpperCase(text) ==
    [i \in 1..Len(text) |->
        IF IsIn(LowerChars, text[i])
        THEN UpperChars[IndexIn(LowerChars, text[i])]
        ELSE text[i]]

ToLowerCase(text) ==
    [i \in 1..Len(text) |->
        IF IsIn(UpperChars, text[i])
        THEN LowerChars[IndexIn(UpperChars, text[i])]
        ELSE text[i]]

\* text.split(sep) for a one-character separator: the pieces between the
\* separators, empty pieces included; at least one piece.
RECURSIVE SplitFrom(_, _, _, _)
SplitFrom(text, sep, i, piece) ==
    IF i > Len(text) THEN <<piece>>
    ELSE IF text[i] = sep
         THEN <<piece>> \o SplitFrom(text, sep, i + 1, <<>>)
         ELSE SplitFrom(text, sep, i + 1, Append(piece, text[i]))

Split(text, sep) == SplitFrom(text, sep, 1, <<>>)

\* line.includes(' ')
Includes(line, c) == \E i \in 1..Len(line) : line[i] = c

(* context.measureText(line).width under the font `bold <fontSize>px`: the  *)
(* browser's font metrics, modelled as the sum of the glyphs' advances; an *)
(* advance is given in twentieths of the font size. A line break is drawn  *)
(* and measured as a space (the canvas replaces white space by U+0020).    *)
EmUnits == 20

CharAdvance(c) ==
    IF c = " " \/ c = "\n" THEN 5
    ELSE IF c = "'" THEN 6
    ELSE IF c \in {"W"} THEN 20
    ELSE IF IsIn(UpperChars, c) \/ c = "w" THEN 14
    ELSE 10

RECURSIVE SumAdvance(_)
SumAdvance(line) ==
    IF line = <<>> THEN 0 ELSE CharAdvance(Head(line)) + SumAdvance(Tail(line))

MeasureText(line, fontSize) == Rat(SumAdvance(line) * fontSize, EmUnits)

\* const maxWidth = textCanvas.width * 0.9
maxWidth == RMul(Rat(CanvasSize, 1), Rat(9, 10))

\* The loop of wrapText with the width of the current line alone tested.
RECURSIVE WrapLoopNoWord(_, _, _, _, _, _)
WrapLoopNoWord(words, i, currentLine, lines, fontSize, width) ==
    IF i > Len(words) THEN Append(lines, currentLine)
    ELSE IF RLt(MeasureText(currentLine, fontSize), width)
         THEN WrapLoopNoWord(words, i + 1, currentLine \o <<" ">> \o words[i],
                             lines, fontSize, width)
         ELSE WrapLoopNoWord(words, i + 1, words[i],
                             Append(lines, currentLine), fontSize, width)

\* The loop of wrapText from word i (1-based) on.
RECURSIVE WrapLoop(_, _, _, _, _, _)
WrapLoop(words, i, currentLine, lines, fontSize, width) ==
    IF i > Len(words) THEN Append(lines, currentLine)
    ELSE IF RLt(MeasureText(currentLine \o <<" ">> \o words[i], fontSize),
                width)
         THEN WrapLoop(words, i + 1, currentLine \o <<" ">> \o words[i],
                       lines, fontSize, width)
         ELSE WrapLoop(words, i + 1, words[i], Append(lines, currentLine),
                       fontSize, width)

\* wrapText with the loop entered at the first word, which is then taken
\* twice.
wrapTextFromFirst(text, fontSize, width) ==
    LET words == Split(text, " ")
    IN  WrapLoop(words, 1, words[1], <<>>, fontSize, width)

\* wrapText(context, text, maxWidth), the context's font being fontSize px.
wrapText(text, fontSize, width) ==
    LET words == Split(text, " ")
    IN  WrapLoop(words, 2, words[1], <<>>, fontSize, width)

\* The lines renderText draws: wrappedLines.
RECURSIVE WrapRawLines(_, _, _)
WrapRawLines(rawLines, i, fontSize) ==
    IF i > Len(rawLines) THEN <<>>
    ELSE LET line == rawLines[i]
             wrapped ==
                 IF RLt(maxWidth, MeasureText(line, fontSize))
                    /\ Includes(line, " ")
                 THEN wrapText(line, fontSize, maxWidth)
                 ELSE <<line>>
         IN  wrapped \o WrapRawLines(rawLines, i + 1, fontSize)

wrappedLines(text, fontSize) == WrapRawLines(Split(text, "\n"), 1, fontSize)

----------------------------------------------------------------------------
(* renderText's line breaking on one text.                                 *)

MaxTextLen == 5
WrapAlphabet == {"a", "W", " ", "\n"}
WrapTexts == UNION {[1..n -> WrapAlphabet] : n \in 0..MaxTextLen}
WrapFontSizes == {80, 200, 500}

WrapInit ==
    /\ sh = ShIdle
    /\ su = SuIdle
    /\ UiIdle
    /\ \E t \in WrapTexts, f \in WrapFontSizes :
        wr = [phase |-> "input", text |-> t, fontSize |-> f, lines |-> <<>>]

\* The text part of renderText: split, measure, wrap.
RenderLines ==
    /\ wr.phase = "input"
    /\ wr' = [wr EXCEPT !.phase = "drawn",
                        !.lines = wrappedLines(wr.text, wr.fontSize)]
    /\ UNCHANGED <<sh, uiVars, su>>

WrapNext == RenderLines

WrapSpec == WrapInit /\ [][WrapNext]_vars

----------------------------------------------------------------------------
(* wrapText on its own: any text, any font size of the context, any        *)
(* maximum width, the widths renderText never passes included.             *)

WrapWidths == {Rat(-1, 1), Zero, Rat(100, 1), maxWidth}

WrapTextInit ==
    /\ sh = ShIdle
    /\ su = SuIdle
    /\ UiIdle
    /\ \E t \in WrapTexts, f \in WrapFontSizes, w \in WrapWidths :
        wr = [phase |-> "input", text |-> t, fontSize |-> f, maxWidth |-> w,
              lines |-> <<>>]

\* lines = wrapText(context, text, maxWidth)
CallWrapText ==
    /\ wr.phase = "input"
    /\ wr' = [wr EXCEPT !.phase = "wrapped",
                        !.lines = wrapText(wr.text, wr.fontSize, wr.maxWidth)]
    /\ UNCHANGED <<sh, uiVars, su>>

WrapTextNext == CallWrapText

WrapTextSpec == WrapTextInit /\ [][WrapTextNext]_vars

----------------------------------------------------------------------------
(* The page: the controls, the text texture, the canvas and the handlers.  *)
(* The state after the script has run with both shaders compiled and the   *)
(* program linked; a handler runs to completion before the next event.     *)

\* A colour value "#rrggbb" as its six hexadecimal digits.
White == <<15, 15, 15, 15, 15, 15>>
Black == <<0, 0, 0, 0, 0, 0>>
Red == <<15, 15, 0, 0, 0, 0>>
Blue == <<0, 0, 0, 0, 8, 0>>

\* "BUT AT\nLEAST\nYOU'LL"
DefaultText ==
    <<"B", "U", "T", " ", "A", "T", "\n", "L", "E", "A", "S", "T", "\n",
      "Y", "O", "U", "'", "L", "L">>

\* A control the page of the variant does not have.
Absent == <<>>

\* The values a user can give the controls (the page sets the ranges).
Texts == {DefaultText, ToLowerCase(DefaultText)}
FontSizes == {80, 200}
LineSpacings == {Rat(6, 5), Rat(2, 1)}
UiDistortions == {Rat(2, 1), Zero}
UiZooms == {Rat(3, 2), One}
FontColors == {White, Red}
BgColors == {Black, Blue}
UiNoiseAmounts(v) == IF v = "crt" THEN {Rat(1, 20), Zero} ELSE {Absent}
UiIntensities(v) == IF v = "crt" THEN {Rat(3, 20), Zero} ELSE {Absent}

Controls(v) ==
    [text : Texts, fontSize : FontSizes, lineSpacing : LineSpacings,
     distortion : UiDistortions, zoom : UiZooms, fontColor : FontColors,
     bgColor : BgColors, noiseAmount : UiNoiseAmounts(v),
     scanlineIntensity : UiIntensities(v)]

\* wrappedLines for every text and font size the controls can hold, worked
\* out once.
WrappedLinesOf == [t \in Texts, f \in FontSizes |-> wrappedLines(t, f)]

\* What renderText paints on textCanvas and uploads: the background, the
\* fill style, the font size and the lines with their vertical layout.
Rasterize(c) ==
    LET lines == WrappedLinesOf[c.text, c.fontSize]
        lineHeight == RMul(Rat(c.fontSize, 1), c.lineSpacing)
        totalHeight == RMul(Rat(Len(lines) - 1, 1), lineHeight)
    IN  [bg |-> c.bgColor, fillStyle |-> c.fontColor, fontSize |-> c.fontSize,
         lines |-> lines, lineHeight |-> lineHeight,
         startY |-> RMul(RSub(Rat(CanvasSize, 1), totalHeight), Half)]

\* What render() draws with: the uniforms.  The quad covers the whole
\* canvas and blending is off, so nothing of the clear colour is left in
\* the frame; uTime only seeds the noise and is not kept.
DrawFrame(v, c) ==
    [uDistortion |-> c.distortion,
     uZoom |-> c.zoom,
     uNoiseAmount |-> c.noiseAmount,
     uScanlineIntensity |-> c.scanlineIntensity,
     uScanlineFrequency |-> IF v = "crt" THEN ScanlineFrequency ELSE Absent]

\* The drawing buffer before the first draw.
Blank == <<>>

\* The drawing buffer after gl.clear alone: the background colour.
ClearedFrame(c) == [clearColor |-> c.bgColor]

\* render(): clear, bind the texture, set the uniforms, drawArrays.
render(c) ==
    /\ frame' = DrawFrame(variant, c)
    /\ pendingUpload' = FALSE

\* renderText with the render() call at its end dropped.
renderTextUploadOnly(c) ==
    /\ texture' = Rasterize(c)
    /\ frame' = frame
    /\ pendingUpload' = TRUE

\* renderText with the controls' values c: paint and upload; app.js then
\* calls render(), the CRT version leaves the draw to the animation loop.
renderText(c) ==
    /\ texture' = Rasterize(c)
    /\ IF variant = "app"
       THEN render(c)
       ELSE frame' = frame /\ pendingUpload' = TRUE

UiInit ==
    /\ sh = ShIdle
    /\ wr = WrIdle
    /\ su = SuIdle
    /\ variant \in {"app", "crt"}
    /\ ctl \in Controls(variant)
    /\ body = ctl.bgColor
    /\ texture = Rasterize(ctl)
    /\ frame = IF variant = "app" THEN DrawFrame(variant, ctl) ELSE Blank
    /\ pendingUpload = (variant = "crt")
    /\ png = <<>>
    /\ last = "load"

\* An event that leaves no trace but the handler's: the download is gone.
Handled(name) ==
    /\ png' = <<>>
    /\ last' = name
    /\ UNCHANGED <<sh, wr, su, variant>>

\* The user edits the textarea: no listener.
TypeText ==
    /\ \E t \in Texts \ {ctl.text} : ctl' = [ctl EXCEPT !.text = t]
    /\ UNCHANGED <<body, texture, frame, pendingUpload>>
    /\ Handled("input")

\* distortionInput 'input': render in app.js, no listener in the CRT version.
DistortionInput ==
    /\ \E d \in UiDistortions \ {ctl.distortion} :
        ctl' = [ctl EXCEPT !.distortion = d]
    /\ IF variant = "app" THEN render(ctl')
       ELSE UNCHANGED <<frame, pendingUpload>>
    /\ UNCHANGED <<body, texture>>
    /\ Handled("input")

ZoomInput ==
    /\ \E z \in UiZooms \ {ctl.zoom} : ctl' = [ctl EXCEPT !.zoom = z]
    /\ IF variant = "app" THEN render(ctl')
       ELSE UNCHANGED <<frame, pendingUpload>>
    /\ UNCHANGED <<body, texture>>
    /\ Handled("input")

\* The CRT sliders: no listener, render() reads them on every frame.
NoiseAmountInput ==
    /\ variant = "crt"
    /\ \E n \in UiNoiseAmounts(variant) \ {ctl.noiseAmount} :
        ctl' = [ctl EXCEPT !.noiseAmount = n]
    /\ UNCHANGED <<body, texture, frame, pendingUpload>>
    /\ Handled("input")

ScanlineIntensityInput ==
    /\ variant = "crt"
    /\ \E i \in UiIntensities(variant) \ {ctl.scanlineIntensity} :
        ctl' = [ctl EXCEPT !.scanlineIntensity = i]
    /\ UNCHANGED <<body, texture, frame, pendingUpload>>
    /\ Handled("input")

FontSizeInput ==
    /\ \E f \in FontSizes \ {ctl.fontSize} : ctl' = [ctl EXCEPT !.fontSize = f]
    /\ renderText(ctl')
    /\ UNCHANGED body
    /\ Handled("input")

LineSpacingInput ==
    /\ \E l \in LineSpacings \ {ctl.lineSpacing} :
        ctl' = [ctl EXCEPT !.lineSpacing = l]
    /\ renderText(ctl')
    /\ UNCHANGED body
    /\ Handled("input")

UpdateClick ==
    /\ renderText(ctl)
    /\ UNCHANGED <<ctl, body>>
    /\ Handled("input")

FontColorInput ==
    /\ \E c \in FontColors \ {ctl.fontColor} :
        ctl' = [ctl EXCEPT !.fontColor = c]
    /\ renderText(ctl')
    /\ UNCHANGED body
    /\ Handled("input")

BgColorInput ==
    /\ \E c \in BgColors \ {ctl.bgColor} : ctl' = [ctl EXCEPT !.bgColor = c]
    /\ body' = ctl'.bgColor
    /\ renderText(ctl')
    /\ Handled("input")

ToUpperClick ==
    /\ ctl' = [ctl EXCEPT !.text = ToUpperCase(ctl.text)]
    /\ renderText(ctl')
    /\ UNCHANGED body
    /\ Handled("input")

ToLowerClick ==
    /\ ctl' = [ctl EXCEPT !.text = ToLowerCase(ctl.text)]
    /\ renderText(ctl')
    /\ UNCHANGED body
    /\ Handled("input")

\* The reset handler with the CRT controls left out.
ResetControlsLensOnly(c, v) ==
    [c EXCEPT !.text = DefaultText, !.fontSize = 80,
              !.lineSpacing = Rat(6, 5), !.distortion = Rat(2, 1),
              !.zoom = Rat(3, 2), !.fontColor = White, !.bgColor = Black]

\* The controls after the reset handler's assignments; the page of app.js
\* has no CRT controls.
ResetControls(c, v) ==
    [c EXCEPT !.text = DefaultText, !.fontSize = 80,
              !.lineSpacing = Rat(6, 5), !.distortion = Rat(2, 1),
              !.zoom = Rat(3, 2), !.fontColor = White, !.bgColor = Black,
              !.noiseAmount = IF v = "crt" THEN Rat(1, 20) ELSE @,
              !.scanlineIntensity = IF v = "crt" THEN Rat(3, 20) ELSE @]

\* No control of the variant holds the value the reset handler gives it.
AllChanged(c, v) ==
    \A k \in DOMAIN c \ (IF v = "crt" THEN {}
                         ELSE {"noiseAmount", "scanlineIntensity"}) :
        c[k] # ResetControls(c, v)[k]

ResetClick ==
    /\ ctl' = ResetControls(ctl, variant)
    /\ body' = ctl'.bgColor
    /\ renderText(ctl')
    /\ png' = <<>>
    /\ last' = IF AllChanged(ctl, variant) THEN "reset all" ELSE "reset"
    /\ UNCHANGED <<sh, wr, su, variant>>

\* exportToPNG of the CRT version: the drawing buffer as it is.
exportToPNGNoRender ==
    /\ UNCHANGED <<frame, pendingUpload>>
    /\ png' = [image |-> frame, sampledUpload |-> ~pendingUpload]

\* exportToPNG: app.js renders first; then canvas.toDataURL and the download.
exportToPNG ==
    IF variant = "app"
    THEN /\ render(ctl)
         /\ png' = [image |-> frame', sampledUpload |-> ~pendingUpload']
    ELSE exportToPNGNoRender

ExportClick ==
    /\ exportToPNG
    /\ last' = "export"
    /\ UNCHANGED <<sh, wr, su, variant, ctl, body, texture>>

\* animate(time): render(time), then requestAnimationFrame(animate).
Animate ==
    /\ variant = "crt"
    /\ render(ctl)
    /\ png' = <<>>
    /\ last' = IF pendingUpload THEN "frame with upload" ELSE "frame"
    /\ UNCHANGED <<sh, wr, su, variant, ctl, body, texture>>

Next ==
    \/ TypeText
    \/ DistortionInput
    \/ ZoomInput
    \/ NoiseAmountInput
    \/ ScanlineIntensityInput
    \/ FontSizeInput
    \/ LineSpacingInput
    \/ UpdateClick
    \/ FontColorInput
    \/ BgColorInput
    \/ ToUpperClick
    \/ ToLowerClick
    \/ ResetClick
    \/ ExportClick
    \/ Animate

Spec == UiInit /\ [][Next]_vars

\* requestAnimationFrame calls animate again after every frame.
FairSpec == Spec /\ WF_vars(Animate)

----------------------------------------------------------------------------
(* The script's setup, statement by statement, in whatever the browser     *)
(* gives it: a WebGL context or none, shaders that compile or do not, an   *)
(* attachShader that throws a TypeError on a null shader (the binding      *)
(* takes a WebGLShader, not null) or records INVALID_VALUE and returns.    *)

ShaderTypes == {"vertex", "fragment"}

SetupInit ==
    /\ sh = ShIdle
    /\ wr = WrIdle
    /\ variant \in {"app", "crt"}
    /\ ctl \in Controls(variant)
    /\ body = <<>>
    /\ texture = <<>>
    /\ frame = Blank
    /\ pendingUpload = FALSE
    /\ png = <<>>
    /\ last = "none"
    /\ \E gl \in BOOLEAN, cv \in BOOLEAN, cf \in BOOLEAN, nt \in BOOLEAN,
          lk \in BOOLEAN :
        su = [pc |-> "getContext",
              glSupported |-> gl,
              compiles |-> [vertex |-> cv, fragment |-> cf],
              nullThrows |-> nt,
              linkOk |-> lk,
              shader |-> [vertex |-> "unset", fragment |-> "unset"],
              created |-> [vertex |-> 0, fragment |-> 0],
              deleted |-> {},
              attached |-> {},
              attachCalls |-> 0,
              linkStatus |-> "unlinked",
              errors |-> <<>>,
              alerts |-> 0]

\* const gl = canvas.getContext(...); if (!gl) alert(...), and on it goes.
GetContext ==
    /\ su.pc = "getContext"
    /\ su' = [su EXCEPT !.pc = "compileVertex",
                        !.alerts = IF su.glSupported THEN 0 ELSE 1]
    /\ UNCHANGED <<sh, wr, uiVars>>

\* compileShader without the deleteShader.
compileShaderNoDelete(s, type) ==
    IF s.compiles[type]
    THEN [s EXCEPT !.created[type] = @ + 1, !.shader[type] = "shader"]
    ELSE [s EXCEPT !.created[type] = @ + 1,
                   !.errors = Append(@, <<"Shader compile error:", type>>),
                   !.shader[type] = "null"]

\* compileShader(source, type) with a context: the setup after it returned.
compileShader(s, type) ==
    IF s.compiles[type]
    THEN [s EXCEPT !.created[type] = @ + 1, !.shader[type] = "shader"]
    ELSE [s EXCEPT !.created[type] = @ + 1,
                   !.errors = Append(@, <<"Shader compile error:", type>>),
                   !.deleted = @ \cup {type},
                   !.shader[type] = "null"]

\* const <type>Shader = compileShader(...); gl.createShader throws a
\* TypeError when gl is null, which ends the script.
Compile(type, next) ==
    su' = IF su.glSupported
          THEN [compileShader(su, type) EXCEPT !.pc = next]
          ELSE [su EXCEPT !.pc = "aborted"]

CompileVertex ==
    /\ su.pc = "compileVertex"
    /\ Compile("vertex", "compileFragment")
    /\ UNCHANGED <<sh, wr, uiVars>>

CompileFragment ==
    /\ su.pc = "compileFragment"
    /\ Compile("fragment", "attachVertex")
    /\ UNCHANGED <<sh, wr, uiVars>>

\* gl.attachShader(shaderProgram, <type>Shader), whatever compileShader
\* returned.
Attach(type, next) ==
    su' = IF su.shader[type] = "null"
          THEN IF su.nullThrows
               THEN [su EXCEPT !.pc = "aborted", !.attachCalls = @ + 1]
               ELSE [su EXCEPT !.pc = next, !.attachCalls = @ + 1]
          ELSE [su EXCEPT !.pc = next, !.attachCalls = @ + 1,
                          !.attached = @ \cup {type}]

\* const shaderProgram = gl.createProgram(); gl.attachShader(.., vertexShader)
AttachVertex ==
    /\ su.pc = "attachVertex"
    /\ Attach("vertex", "attachFragment")
    /\ UNCHANGED <<sh, wr, uiVars>>

AttachFragment ==
    /\ su.pc = "attachFragment"
    /\ Attach("fragment", "link")
    /\ UNCHANGED <<sh, wr, uiVars>>

\* gl.linkProgram(shaderProgram): a program short of a shader does not link.
LinkProgram ==
    /\ su.pc = "link"
    /\ su' = [su EXCEPT
                !.pc = "checkLink",
                !.linkStatus = IF su.attached = ShaderTypes /\ su.linkOk
                               THEN "linked" ELSE "failed"]
    /\ UNCHANGED <<sh, wr, uiVars>>

\* if (!gl.getProgramParameter(shaderProgram, gl.LINK_STATUS)) console.error
CheckLink ==
    /\ su.pc = "checkLink"
    /\ su' = [su EXCEPT
                !.pc = "rest",
                !.errors = IF su.linkStatus = "linked" THEN @
                           ELSE Append(@, <<"Shader program link error">>)]
    /\ UNCHANGED <<sh, wr, uiVars>>

\* The rest of the script: locations, buffers, the texture, the listeners,
\* the body's background, the first renderText and, in the CRT version, the
\* request of the first animation frame.  None of it looks at the link
\* status: the text is painted and uploaded in any case.  With a linked
\* program app.js then draws; with a program that did not link useProgram
\* and drawArrays only record INVALID_OPERATION, and render() leaves the
\* cleared buffer and the upload undrawn.
FinishSetup ==
    /\ su.pc = "rest"
    /\ su' = [su EXCEPT !.pc = "listening"]
    /\ body' = ctl.bgColor
    /\ IF su.linkStatus = "linked"
       THEN renderText(ctl)
       ELSE /\ texture' = Rasterize(ctl)
            /\ frame' = IF variant = "app" THEN ClearedFrame(ctl) ELSE frame
            /\ pendingUpload' = TRUE
    /\ last' = "load"
    /\ UNCHANGED <<sh, wr, variant, ctl, png>>

SetupNext ==
    \/ GetContext
    \/ CompileVertex
    \/ CompileFragment
    \/ AttachVertex
    \/ AttachFragment
    \/ LinkProgram
    \/ CheckLink
    \/ FinishSetup

SetupSpec == SetupInit /\ [][SetupNext]_vars

----------------------------------------------------------------------------
(* Claims about the fragment shader, under ShaderSpec.                     *)

Shaded == sh.phase = "shaded"

\* The squared distance of a texture coordinate from the center.
Dist2(v) == Dot2(V2Sub(v, center))

\* C1: for every distortion and every zoom that is not 0, the fragment at
\* the center (0.5, 0.5) samples the texture at the center.
C1_CenterFixed ==
    (Shaded /\ sh.uZoom # Zero /\ sh.vTexCoord = center)
        => sh.distortedCoord = center

C1_Witness ==
    /\ Shaded
    /\ sh.vTexCoord = center
    /\ sh.uZoom = Rat(3, 2)
    /\ sh.uDistortion = Rat(2, 1)
    /\ sh.distortedCoord = center

\* C2: for a positive distortion and a zoom that is not 0, a coordinate no
\* farther from the center than another has a distorted image no farther
\* from the center than the other's.
C2_RadiallyMonotonic ==
    (Shaded /\ sh.uZoom # Zero /\ RLt(Zero, sh.uDistortion))
        => \A q \in TexCoords :
            RLe(Dist2(sh.vTexCoord), Dist2(q))
                => RLe(Dist2(sh.distortedCoord),
                       Dist2(BarrelDistort(q, sh.uDistortion, sh.uZoom)))

\* A fragment off the center, with a farther one whose image is farther.
C2_Witness ==
    /\ Shaded
    /\ sh.uZoom = Rat(3, 2)
    /\ sh.uDistortion = Rat(2, 1)
    /\ sh.vTexCoord # center
    /\ \E q \in TexCoords :
        /\ RLt(Dist2(sh.vTexCoord), Dist2(q))
        /\ RLt(Dist2(sh.distortedCoord),
               Dist2(BarrelDistort(q, sh.uDistortion, sh.uZoom)))

\* The squared length of the displacement of v to its image w.
Displacement2(v, w) == Dot2(V2Sub(w, v))

\* C7, as stated: for fixed distortion and zoom, the displacement of a
\* point is proportional to its squared distance from the center, that is
\* displacement(p) * r(q)^2 = displacement(q) * r(p)^2 for all p and q
\* (compared squared).
C7_DisplacementQuadratic ==
    (Shaded /\ sh.uZoom # Zero)
        => \A q \in TexCoords :
            LET rp2 == Dist2(sh.vTexCoord)
                rq2 == Dist2(q)
                dq == BarrelDistort(q, sh.uDistortion, sh.uZoom)
            IN  RMul(Displacement2(sh.vTexCoord, sh.distortedCoord),
                     RMul(rq2, rq2))
                = RMul(Displacement2(q, dq), RMul(rp2, rp2))

\* C7, amended: the displacement is the offset from the center scaled by
\* uDistortion * uZoom^2 * r^2; it is the scale factor that grows with the
\* square of the distance r, and the displacement with its cube.
C7_DisplacementCubic ==
    (Shaded /\ sh.uZoom # Zero)
        => LET offset == V2Sub(sh.vTexCoord, center)
               k == RMul(sh.uDistortion,
                         RMul(RMul(sh.uZoom, sh.uZoom), Dist2(sh.vTexCoord)))
           IN  V2Sub(sh.distortedCoord, sh.vTexCoord) = V2Scale(offset, k)

\* A displaced fragment.
C7_Witness ==
    /\ Shaded
    /\ sh.uZoom = Rat(3, 2)
    /\ sh.uDistortion = Rat(2, 1)
    /\ sh.vTexCoord = <<Rat(1, 4), Rat(3, 4)>>
    /\ sh.distortedCoord = <<Rat(7, 64), Rat(57, 64)>>

\* Inside the texture bounds: 0 <= x <= 1 and 0 <= y <= 1.
InBounds(c) ==
    /\ RLe(Zero, c[1]) /\ RLe(c[1], One)
    /\ RLe(Zero, c[2]) /\ RLe(c[2], One)

\* Outside the texture bounds: x or y below 0 or above 1.  A NaN coordinate
\* is neither inside nor outside.
OutsideBounds(c) ==
    \/ RLt(c[1], Zero) \/ RLt(One, c[1])
    \/ RLt(c[2], Zero) \/ RLt(One, c[2])

\* C8, as stated: in bounds and with a scanline intensity that is not
\* negative, the scanline step makes no RGB component larger than the
\* sampled colour's (beyond the error of the sine approximation).
C8_ScanlineDarkens ==
    (Shaded /\ sh.variant = "crt" /\ InBounds(sh.distortedCoord)
        /\ RLe(Zero, sh.uScanlineIntensity))
        => \A i \in 1..3 :
            RLe(sh.scanned[i],
                RAdd(sh.sample[i], RMul(SinTol, sh.uScanlineIntensity)))

\* C10: out of the texture bounds the CRT shader outputs the sampled colour,
\* whatever the time, noise amount and scanline intensity; in bounds it
\* subtracts the scanline term from, and adds the noise term to, the RGB
\* components.
C10_EffectsOnlyInBounds ==
    (Shaded /\ sh.variant = "crt")
        => /\ OutsideBounds(sh.distortedCoord) => sh.fragColor = sh.sample
           /\ InBounds(sh.distortedCoord)
                => LET k == RSub(RMul(RSub(sh.rnd, Half), sh.uNoiseAmount),
                                 RMul(Sin(RMul(sh.distortedCoord[2],
                                               ScanlineFrequency)),
                                      sh.uScanlineIntensity))
                   IN  sh.fragColor = <<RAdd(sh.sample[1], k),
                                        RAdd(sh.sample[2], k),
                                        RAdd(sh.sample[3], k), sh.sample[4]>>

\* A fragment out of bounds in y only, with every effect switched on.
C10_Witness ==
    /\ Shaded
    /\ sh.variant = "crt"
    /\ sh.uZoom # Zero
    /\ InBounds(<<sh.distortedCoord[1], Half>>)
    /\ RLt(One, sh.distortedCoord[2])
    /\ sh.uScanlineIntensity = Rat(3, 20)
    /\ sh.uNoiseAmount = Rat(1, 20)
    /\ sh.rnd = Rat(3, 4)
    /\ sh.fragColor = sh.sample


----------------------------------------------------------------------------
(* Claims about the text wrapping, under WrapSpec.                         *)

\* C3: every line renderText draws is at most maxWidth wide, unless it is a
\* single word (it holds no space) that is itself wider than maxWidth.
C3_LinesFit ==
    wr.phase = "drawn"
        => \A i \in 1..Len(wr.lines) :
            \/ RLe(MeasureText(wr.lines[i], wr.fontSize), maxWidth)
            \/ ~Includes(wr.lines[i], " ")

\* A raw line that was too wide and was broken in two, one of them of two
\* words.
C3_Witness ==
    /\ wr.phase = "drawn"
    /\ ~Includes(wr.text, "\n")
    /\ RLt(maxWidth, MeasureText(wr.text, wr.fontSize))
    /\ Len(wr.lines) = 2
    /\ Includes(wr.lines[1], " ")
    /\ RLe(MeasureText(wr.lines[1], wr.fontSize), maxWidth)


----------------------------------------------------------------------------
(* Claims about wrapText alone, under WrapTextSpec.                        *)

\* lines.join(sep)
RECURSIVE Join(_, _)
Join(lines, sep) ==
    IF lines = <<>> THEN <<>>
    ELSE IF Len(lines) = 1 THEN lines[1]
    ELSE lines[1] \o <<sep>> \o Join(Tail(lines), sep)

\* The words of all the lines, in order.
RECURSIVE WordsOf(_)
WordsOf(lines) ==
    IF lines = <<>> THEN <<>>
    ELSE Split(Head(lines), " ") \o WordsOf(Tail(lines))

\* C11: wrapText loses and reorders nothing: for every text and maximum
\* width it returns at least one line, the lines joined with a single space
\* are exactly the text, and the words of the lines are the words of the
\* text, each once and in the order of the text.
C11_WrapKeepsText ==
    wr.phase = "wrapped"
        => /\ Len(wr.lines) >= 1
           /\ Join(wr.lines, " ") = wr.text
           /\ WordsOf(wr.lines) = Split(wr.text, " ")

\* A text of three words, one of them empty, broken in two lines after the
\* second word.
C11_Witness ==
    /\ wr.phase = "wrapped"
    /\ Len(Split(wr.text, " ")) = 3
    /\ \E i \in 1..3 : Split(wr.text, " ")[i] = <<>>
    /\ Len(wr.lines) = 2
    /\ Includes(wr.lines[1], " ")
    /\ wr.lines[2] # <<>>


----------------------------------------------------------------------------
(* Claims about the page, under Spec and FairSpec.                         *)

\* C4: after a click on reset every control holds its default value: text
\* "BUT AT\nLEAST\nYOU'LL", font size 80, line spacing 1.2, distortion 2,
\* zoom 1.5, font colour #FFFFFF, background #000000 and, in the CRT
\* version, noise amount 0.05 and scanline intensity 0.15.
C4_ResetRestoresDefaults ==
    last \in {"reset", "reset all"}
        => /\ ctl.text = <<"B", "U", "T", " ", "A", "T", "\n",
                           "L", "E", "A", "S", "T", "\n",
                           "Y", "O", "U", "'", "L", "L">>
           /\ ctl.fontSize = 80
           /\ ctl.lineSpacing = Rat(12, 10)
           /\ ctl.distortion = Rat(2, 1)
           /\ ctl.zoom = Rat(15, 10)
           /\ ctl.fontColor = <<15, 15, 15, 15, 15, 15>>
           /\ ctl.bgColor = <<0, 0, 0, 0, 0, 0>>
           /\ variant = "crt" => /\ ctl.noiseAmount = Rat(5, 100)
                                 /\ ctl.scanlineIntensity = Rat(15, 100)

\* A reset in the CRT version from a state in which every control had another
\* value.
C4_Witness ==
    /\ last = "reset all"
    /\ variant = "crt"
    /\ ctl.noiseAmount = Rat(1, 20)
    /\ ctl.text = DefaultText

\* C5: every texture upload is followed by a draw that samples it: in
\* app.js within the handler that uploaded, so that no handler ends with an
\* upload not drawn; in the CRT version by a later animation frame.
C5_UploadThenDraw ==
    /\ [](variant = "app" => ~pendingUpload)
    /\ (pendingUpload ~> ~pendingUpload)

\* An animation frame has drawn an upload that had been waiting.
C5_Witness ==
    /\ variant = "crt"
    /\ last = "frame with upload"
    /\ ~pendingUpload
    /\ frame = DrawFrame(variant, ctl)

\* C9, as stated: the image exportToPNG captures comes from a draw made with
\* the texture uploaded last and with the controls' current values.
C9_ExportUpToDate ==
    last = "export"
        => /\ png.sampledUpload
           /\ png.image.uDistortion = ctl.distortion
           /\ png.image.uZoom = ctl.zoom
           /\ png.image.uNoiseAmount = ctl.noiseAmount
           /\ png.image.uScanlineIntensity = ctl.scanlineIntensity

----------------------------------------------------------------------------
(* Claims about the setup, under SetupSpec.                                *)

SomeShaderNull == \E t \in ShaderTypes : su.shader[t] = "null"

ScriptEnded == su.pc \in {"aborted", "listening"}

CompileErrors ==
    {i \in 1..Len(su.errors) : su.errors[i][1] = "Shader compile error:"}

\* compileShader's two outcomes, and no second attempt.
CompileOutcome ==
    \A t \in ShaderTypes :
        /\ su.created[t] <= 1
        /\ su.shader[t] = "unset" <=> su.created[t] = 0
        /\ su.shader[t] = "shader"
            => /\ t \notin su.deleted
               /\ \A i \in CompileErrors : su.errors[i][2] # t
        /\ su.shader[t] = "null"
            => /\ t \in su.deleted
               /\ Cardinality({i \in CompileErrors : su.errors[i][2] = t}) = 1

\* C6, as stated: compileShader returns the shader, or logs, deletes and
\* returns null, once per shader; after a failure the setup attaches the
\* null shader and links the program, and the link failure is only logged:
\* the script runs to its end.
C6_CompileThenLink ==
    su.pc # "idle" /\ su.glSupported
        => /\ CompileOutcome
           /\ (SomeShaderNull /\ ScriptEnded)
                => /\ su.pc = "listening"
                   /\ su.attachCalls = 2
                   /\ su.linkStatus = "failed"
                   /\ su.errors[Len(su.errors)] = <<"Shader program link error">>

\* C6, amended: the same, but the setup goes on to link only if attachShader
\* returns for the null shader; where it throws, the script ends at that
\* call with nothing linked and only the compile errors logged.
C6_CompileThenAttach ==
    su.pc # "idle" /\ su.glSupported
        => /\ CompileOutcome
           /\ (SomeShaderNull /\ su.pc = "listening")
                => /\ su.attachCalls = 2
                   /\ su.linkStatus = "failed"
                   /\ su.errors[Len(su.errors)] = <<"Shader program link error">>
           /\ su.pc = "aborted"
                => /\ SomeShaderNull
                   /\ su.nullThrows
                   /\ su.attachCalls \in {1, 2}
                   /\ su.attached \subseteq {"vertex"}
                   /\ su.linkStatus = "unlinked"
                   /\ CompileErrors = 1..Len(su.errors)

\* The fragment shader failed to compile, attachShader returned for null and
\* the script ran to its end with the link failure logged.
C6_Witness ==
    /\ su.pc = "listening"
    /\ su.glSupported
    /\ su.shader = [vertex |-> "shader", fragment |-> "null"]
    /\ su.deleted = {"fragment"}
    /\ su.linkStatus = "failed"
    /\ Len(su.errors) = 2

====
